---- MODULE Spec2Model ----
(***************************************************************************)
(* Inter-skill communication runtime (dev/runtime/interop.py): the five    *)
(* outbound interop tools built by build_interop_tools and the forward RPC *)
(* handlers handle_get_data, handle_call_function and handle_list_exposed. *)
(*                                                                         *)
(* Every coroutine runs on one cooperative scheduler: the code between two *)
(* awaits is one atomic step, and the awaited hook, handler or host call   *)
(* resolves in a later step, so several tasks interleave at their awaits.  *)
(***************************************************************************)
EXTENDS Naturals, Sequences, FiniteSets, TLC

\* Number of tasks (inbound RPCs and tool invocations) one behaviour starts.
MaxTasks == 2

Tasks == 1..MaxTasks

(***************************************************************************)
(* Python values.  Every value carries its type, so None, "" and {} are    *)
(* three different values and truth-testing follows Python's rules.        *)
(***************************************************************************)
None == [type |-> "NoneType"]

Str(s) == [type |-> "str", value |-> s]

\* A dict value is the set of its (key, value) items.
Dict(items) == [type |-> "dict", value |-> items]

\* An async callable, known by its name.
Callable(name) == [type |-> "function", name |-> name]

\* bool(v): None, "" and {} are false; objects and callables are true.
Truthy(v) ==
  CASE v.type = "NoneType" -> FALSE
    [] v.type = "str" -> v.value # ""
    [] v.type = "dict" -> v.value # {}
    [] OTHER -> TRUE

\* d.get(k, default) on a dict held as a function from keys to values.
Get(d, k, default) == IF k \in DOMAIN d THEN d[k] ELSE default

(***************************************************************************)
(* Text.  A string built by the code is the sequence of its pieces: a      *)
(* literal, or the JSON rendering of a value.                              *)
(***************************************************************************)
Lit(s) == [lit |-> s]

\* json.dumps(value, indent=2)
json_dumps(v) == <<[json |-> v]>>

\* An exception object; str(exc) is the message it was raised with.
Exc(cls, msg) == [type |-> cls, args |-> msg]

\* str(exc): the message; KeyError renders the repr of its argument.
str(exc) ==
  IF exc.type = "KeyError" THEN <<Lit("'")>> \o exc.args \o <<Lit("'")>> ELSE exc.args

\* ToolResult(content=..., is_error=...); is_error defaults to False.
ToolResult(content, is_error) ==
  [type |-> "ToolResult", content |-> content, is_error |-> is_error]

(***************************************************************************)
(* The capability declarations of a skill (InteropSchema).                 *)
(***************************************************************************)
ExposedDataDefinition(name, description, visibility, schema, handler) ==
  [type |-> "ExposedDataDefinition", name |-> name, description |-> description,
   visibility |-> visibility, schema_ |-> schema, handler |-> handler]

ExposedFunctionDefinition(name, description, visibility, parameters, returns, handler) ==
  [type |-> "ExposedFunctionDefinition", name |-> name, description |-> description,
   visibility |-> visibility, parameters |-> parameters, returns |-> returns,
   handler |-> handler]

ObjectSchema == Dict({<<"type", "object">>})

\* InteropSchema(exposed_data=[...], exposed_functions=[...]): a frozen pair of
\* lists.  The model declares no validator, so any two lists are accepted.
InteropSchema(data, functions) == [exposed_data |-> data, exposed_functions |-> functions]

\* Endpoints and functions declared by the skill: public, frontend-only,
\* skills-only and private ([] visibility) entries.
interop_schema ==
  InteropSchema(
     << ExposedDataDefinition("connection-status", "Current skill status",
                              <<"skills", "frontend">>, ObjectSchema, Callable("_get_status")),
        ExposedDataDefinition("private-notes", "Notes kept private",
                              <<>>, Dict({}), Callable("_get_notes_summary")) >>,
     << ExposedFunctionDefinition("add-note", "Add a note", <<"skills">>,
                                  Dict({<<"required", "title">>}), ObjectSchema,
                                  Callable("_add_note")),
        ExposedFunctionDefinition("purge-notes", "Delete all notes", <<>>,
                                  ObjectSchema, Dict({}), Callable("_purge_notes")) >>)

\* A declaration in which two endpoints, and two functions, share a name.
duplicate_interop_schema ==
  InteropSchema(
     << ExposedDataDefinition("connection-status", "Current skill status",
                              <<"skills", "frontend">>, ObjectSchema, Callable("_get_status")),
        ExposedDataDefinition("connection-status", "Notes kept private",
                              <<>>, Dict({}), Callable("_get_notes_summary")) >>,
     << ExposedFunctionDefinition("add-note", "Add a note", <<"skills">>,
                                  Dict({<<"required", "title">>}), ObjectSchema,
                                  Callable("_add_note")),
        ExposedFunctionDefinition("add-note", "Delete all notes", <<>>,
                                  ObjectSchema, Dict({}), Callable("_purge_notes")) >>)

DeclaredSchemas == {interop_schema, duplicate_interop_schema}

\* registry[key] = value on a dict held as a sequence of (key, value) entries
\* in insertion order: a key already present keeps its place and takes the
\* new value.
RegistrySet(registry, key, value) ==
  IF \E i \in 1..Len(registry) : registry[i].key = key
  THEN [i \in 1..Len(registry) |->
          IF registry[i].key = key THEN [key |-> key, value |-> value] ELSE registry[i]]
  ELSE Append(registry, [key |-> key, value |-> value])

RECURSIVE RegistryOfFirst(_, _)
RegistryOfFirst(defs, n) ==
  IF n = 0 THEN <<>>
  ELSE RegistrySet(RegistryOfFirst(defs, n - 1), Str(defs[n].name), defs[n])

\* The server keeps the declarations in dicts keyed by name, filled in
\* declaration order.
Registry(defs) == RegistryOfFirst(defs, Len(defs))

\* Variant of RegistryGet: a miss answers the first entry instead of None.
RegistryGet_or_first(registry, key) ==
  IF \E i \in 1..Len(registry) : registry[i].key = key
  THEN registry[CHOOSE i \in 1..Len(registry) : registry[i].key = key].value
  ELSE IF Len(registry) > 0 THEN registry[1].value ELSE None

\* registry.get(key): the entry's value, or None.
RegistryGet(registry, key) ==
  IF \E i \in 1..Len(registry) : registry[i].key = key
  THEN registry[CHOOSE i \in 1..Len(registry) : registry[i].key = key].value
  ELSE None

\* registry.values(), in insertion order.
RegistryValues(registry) == [i \in 1..Len(registry) |-> registry[i].value]

(***************************************************************************)
(* Servers: one skill definition run with different hook objects.          *)
(***************************************************************************)
Servers == {"nohooks", "datahook", "callhook"}

SkillHooks(on_data, on_call) ==
  [type |-> "SkillHooks", on_interop_data |-> on_data, on_interop_call |-> on_call]

HooksOf(s) ==
  CASE s = "nohooks" -> None
    [] s = "datahook" -> SkillHooks(Callable("on_interop_data"), None)
    [] s = "callhook" -> SkillHooks(None, Callable("on_interop_call"))

VARIABLES
  skill_interop,      \* the InteropSchema the skill was defined with
  hooks,              \* server._hooks, per server
  exposed_data,       \* server._exposed_data, per server
  exposed_functions,  \* server._exposed_functions, per server
  task                \* the tasks on the scheduler

vars == <<skill_interop, hooks, exposed_data, exposed_functions, task>>

NoOutcome == [kind |-> "none", value |-> None]

Returned(v) == [kind |-> "return", value |-> v]

Raised(exc) == [kind |-> "raise", value |-> exc]

IdleTask ==
  [pc |-> "idle", op |-> "none", server |-> "nohooks", params |-> <<>>,
   hook_calls |-> <<>>, hook_result |-> NoOutcome,
   handler_calls |-> <<>>, handler_result |-> NoOutcome,
   host_calls |-> <<>>, host_result |-> NoOutcome,
   outcome |-> NoOutcome]

\* The servers as constructed for a skill that declares `schema`.
InitWith(schema) ==
  /\ skill_interop = schema
  /\ hooks = [s \in Servers |-> HooksOf(s)]
  /\ exposed_data = [s \in Servers |-> Registry(schema.exposed_data)]
  /\ exposed_functions = [s \in Servers |-> Registry(schema.exposed_functions)]
  /\ task = [i \in Tasks |-> IdleTask]

Init == InitWith(interop_schema)

\* Construction from any of the declarations a skill author can write.
InitDeclared == \E schema \in DeclaredSchemas : InitWith(schema)

\* server._create_context()
create_context(s) == [type |-> "SkillContext", server |-> s]

\* Tasks are interchangeable: they are started in index order.
CanStart(i) == task[i].pc = "idle" /\ \A j \in Tasks : j < i => task[j].pc # "idle"

(***************************************************************************)
(* What the environment supplies: the requests the host delivers, and what *)
(* the skill's hooks and handlers answer when awaited.                     *)
(***************************************************************************)
GetDataRequests ==
  { [callerSkillId |-> Str("x"), dataName |-> Str("connection-status"),
     params |-> Dict({<<"verbose", "1">>})],
    [callerSkillId |-> Str("frontend"), dataName |-> Str("private-notes")],
    [callerSkillId |-> Str("x"), dataName |-> Str("add-note"), params |-> Dict({})] }

CallFunctionRequests ==
  { [callerSkillId |-> Str("x"), functionName |-> Str("add-note"),
     arguments |-> Dict({<<"title", "t">>})],
    [callerSkillId |-> Str("frontend"), functionName |-> Str("purge-notes")],
    [callerSkillId |-> Str("x"), functionName |-> Str("connection-status"),
     arguments |-> Dict({})] }

\* A hook answers None (defer) or a dict, the empty dict included.
HookResults == {None, Dict({}), Dict({<<"short", "1">>})}

HookFailure == Exc("RuntimeError", <<Lit("hook failed")>>)

HandlerResults == {Dict({<<"ok", "true">>}), Dict({})}

HandlerFailure == Exc("KeyError", <<Lit("handler failed")>>)

(***************************************************************************)
(* interop/getData                                                         *)
(***************************************************************************)
\* `if hooks and hooks.on_interop_data`
data_hook_registered(s) == Truthy(hooks[s]) /\ Truthy(hooks[s].on_interop_data)

\* Variant of hook_short_circuits: `if hook_result`, a truth test.
hook_short_circuits_if_truthy(hook_result) == Truthy(hook_result)

\* Variant of hook_short_circuits: the hook's answer is always the response.
hook_short_circuits_always(hook_result) == TRUE

\* `if hook_result is not None`
hook_short_circuits(hook_result) == hook_result # None

\* The RPC response built around a hook's or a handler's result.
Response(result) == [data |-> result]

\* Variant of get_data_fall_through: the name is looked up among the functions.
get_data_fall_through_in_functions(t) ==
  LET data_name == Get(t.params, "dataName", Str(""))
      request_params == Get(t.params, "params", Dict({}))
      endpoint == RegistryGet(exposed_functions[t.server], data_name)
  IN IF ~Truthy(endpoint)
     THEN [t EXCEPT !.pc = "done",
                    !.outcome = Raised(Exc("ValueError",
                                  <<Lit("Unknown data endpoint: "), [fmt |-> data_name]>>))]
     ELSE [t EXCEPT !.pc = "handler_await",
                    !.handler_calls = Append(@, [handler |-> endpoint.handler,
                        args |-> <<create_context(t.server), request_params>>])]

\* "Fall through to registered handler": look the name up, raise on a miss,
\* otherwise call the handler and suspend on it.
get_data_fall_through(t) ==
  LET data_name == Get(t.params, "dataName", Str(""))
      request_params == Get(t.params, "params", Dict({}))
      endpoint == RegistryGet(exposed_data[t.server], data_name)
  IN IF ~Truthy(endpoint)
     THEN [t EXCEPT !.pc = "done",
                    !.outcome = Raised(Exc("ValueError",
                                  <<Lit("Unknown data endpoint: "), [fmt |-> data_name]>>))]
     ELSE [t EXCEPT !.pc = "handler_await",
                    !.handler_calls = Append(@, [handler |-> endpoint.handler,
                        args |-> <<create_context(t.server), request_params>>])]

\* Variant of handle_get_data: the name is looked up before the hook is asked.
handle_get_data_lookup_first(i) ==
  /\ CanStart(i)
  /\ \E s \in Servers, params \in GetDataRequests :
       LET t == [task[i] EXCEPT !.op = "getData", !.server = s, !.params = params]
           caller_skill_id == Get(params, "callerSkillId", Str(""))
           data_name == Get(params, "dataName", Str(""))
           request_params == Get(params, "params", Dict({}))
       IN task' = [task EXCEPT ![i] =
            IF data_hook_registered(s) /\ Truthy(RegistryGet(exposed_data[s], data_name))
            THEN [t EXCEPT !.pc = "hook_await",
                           !.hook_calls = Append(@, [hook |-> hooks[s].on_interop_data,
                               args |-> <<create_context(s), caller_skill_id,
                                          data_name, request_params>>])]
            ELSE get_data_fall_through(t)]
  /\ UNCHANGED <<skill_interop, hooks, exposed_data, exposed_functions>>

\* handle_get_data, from its entry to its first await.
handle_get_data(i) ==
  /\ CanStart(i)
  /\ \E s \in Servers, params \in GetDataRequests :
       LET t == [task[i] EXCEPT !.op = "getData", !.server = s, !.params = params]
           caller_skill_id == Get(params, "callerSkillId", Str(""))
           data_name == Get(params, "dataName", Str(""))
           request_params == Get(params, "params", Dict({}))
       IN task' = [task EXCEPT ![i] =
            IF data_hook_registered(s)
            THEN [t EXCEPT !.pc = "hook_await",
                           !.hook_calls = Append(@, [hook |-> hooks[s].on_interop_data,
                               args |-> <<create_context(s), caller_skill_id,
                                          data_name, request_params>>])]
            ELSE get_data_fall_through(t)]
  /\ UNCHANGED <<skill_interop, hooks, exposed_data, exposed_functions>>

\* Variant of get_data_hook_done: requests are served one at a time, so a
\* request resumes only when no request started before it is still pending.
get_data_hook_done_serialized(i) ==
  /\ task[i].pc = "hook_await"
  /\ task[i].op = "getData"
  /\ \A j \in Tasks : j < i => task[j].pc = "done"
  /\ \/ \E hook_result \in HookResults :
          LET t == [task[i] EXCEPT !.hook_result = Returned(hook_result)]
          IN task' = [task EXCEPT ![i] =
               IF hook_short_circuits(hook_result)
               THEN [t EXCEPT !.pc = "done", !.outcome = Returned(Response(hook_result))]
               ELSE get_data_fall_through(t)]
     \/ task' = [task EXCEPT ![i].pc = "done",
                             ![i].hook_result = Raised(HookFailure),
                             ![i].outcome = Raised(HookFailure)]
  /\ UNCHANGED <<skill_interop, hooks, exposed_data, exposed_functions>>

\* handle_get_data resumes when the awaited hook returns or raises.
get_data_hook_done(i) ==
  /\ task[i].pc = "hook_await"
  /\ task[i].op = "getData"
  /\ \/ \E hook_result \in HookResults :
          LET t == [task[i] EXCEPT !.hook_result = Returned(hook_result)]
          IN task' = [task EXCEPT ![i] =
               IF hook_short_circuits(hook_result)
               THEN [t EXCEPT !.pc = "done", !.outcome = Returned(Response(hook_result))]
               ELSE get_data_fall_through(t)]
     \/ task' = [task EXCEPT ![i].pc = "done",
                             ![i].hook_result = Raised(HookFailure),
                             ![i].outcome = Raised(HookFailure)]
  /\ UNCHANGED <<skill_interop, hooks, exposed_data, exposed_functions>>

\* Variant of get_data_handler_done: a handler failure is caught and answered
\* as an error payload.
get_data_handler_done_catching(i) ==
  /\ task[i].pc = "handler_await"
  /\ task[i].op = "getData"
  /\ \/ \E result \in HandlerResults :
          task' = [task EXCEPT ![i].pc = "done",
                               ![i].handler_result = Returned(result),
                               ![i].outcome = Returned(Response(result))]
     \/ task' = [task EXCEPT ![i].pc = "done",
                             ![i].handler_result = Raised(HandlerFailure),
                             ![i].outcome = Returned(Response(Dict({<<"error", "failed">>})))]
  /\ UNCHANGED <<skill_interop, hooks, exposed_data, exposed_functions>>

\* handle_get_data resumes when the awaited handler returns or raises.
get_data_handler_done(i) ==
  /\ task[i].pc = "handler_await"
  /\ task[i].op = "getData"
  /\ \/ \E result \in HandlerResults :
          task' = [task EXCEPT ![i].pc = "done",
                               ![i].handler_result = Returned(result),
                               ![i].outcome = Returned(Response(result))]
     \/ task' = [task EXCEPT ![i].pc = "done",
                             ![i].handler_result = Raised(HandlerFailure),
                             ![i].outcome = Raised(HandlerFailure)]
  /\ UNCHANGED <<skill_interop, hooks, exposed_data, exposed_functions>>

(***************************************************************************)
(* interop/callFunction                                                    *)
(***************************************************************************)
\* Variant of call_hook_registered: any registered hook counts.
call_hook_registered_any(s) ==
  Truthy(hooks[s]) /\ (Truthy(hooks[s].on_interop_call) \/ Truthy(hooks[s].on_interop_data))

\* `if hooks and hooks.on_interop_call`
call_hook_registered(s) == Truthy(hooks[s]) /\ Truthy(hooks[s].on_interop_call)

\* Variant of call_function_fall_through: the handler is called a second time.
call_function_fall_through_twice(t) ==
  LET function_name == Get(t.params, "functionName", Str(""))
      arguments == Get(t.params, "arguments", Dict({}))
      func == RegistryGet(exposed_functions[t.server], function_name)
      call == [handler |-> func.handler,
               args |-> <<create_context(t.server), arguments>>]
  IN IF ~Truthy(func)
     THEN [t EXCEPT !.pc = "done",
                    !.outcome = Raised(Exc("ValueError",
                                  <<Lit("Unknown function: "), [fmt |-> function_name]>>))]
     ELSE [t EXCEPT !.pc = "handler_await",
                    !.handler_calls = Append(Append(@, call), call)]

\* "Fall through to registered handler" of handle_call_function.
call_function_fall_through(t) ==
  LET function_name == Get(t.params, "functionName", Str(""))
      arguments == Get(t.params, "arguments", Dict({}))
      func == RegistryGet(exposed_functions[t.server], function_name)
  IN IF ~Truthy(func)
     THEN [t EXCEPT !.pc = "done",
                    !.outcome = Raised(Exc("ValueError",
                                  <<Lit("Unknown function: "), [fmt |-> function_name]>>))]
     ELSE [t EXCEPT !.pc = "handler_await",
                    !.handler_calls = Append(@, [handler |-> func.handler,
                        args |-> <<create_context(t.server), arguments>>])]

\* handle_call_function, from its entry to its first await.
handle_call_function(i) ==
  /\ CanStart(i)
  /\ \E s \in Servers, params \in CallFunctionRequests :
       LET t == [task[i] EXCEPT !.op = "callFunction", !.server = s, !.params = params]
           caller_skill_id == Get(params, "callerSkillId", Str(""))
           function_name == Get(params, "functionName", Str(""))
           arguments == Get(params, "arguments", Dict({}))
       IN task' = [task EXCEPT ![i] =
            IF call_hook_registered(s)
            THEN [t EXCEPT !.pc = "hook_await",
                           !.hook_calls = Append(@, [hook |-> hooks[s].on_interop_call,
                               args |-> <<create_context(s), caller_skill_id,
                                          function_name, arguments>>])]
            ELSE call_function_fall_through(t)]
  /\ UNCHANGED <<skill_interop, hooks, exposed_data, exposed_functions>>

call_function_hook_done(i) ==
  /\ task[i].pc = "hook_await"
  /\ task[i].op = "callFunction"
  /\ \/ \E hook_result \in HookResults :
          LET t == [task[i] EXCEPT !.hook_result = Returned(hook_result)]
          IN task' = [task EXCEPT ![i] =
               IF hook_short_circuits(hook_result)
               THEN [t EXCEPT !.pc = "done", !.outcome = Returned(Response(hook_result))]
               ELSE call_function_fall_through(t)]
     \/ task' = [task EXCEPT ![i].pc = "done",
                             ![i].hook_result = Raised(HookFailure),
                             ![i].outcome = Raised(HookFailure)]
  /\ UNCHANGED <<skill_interop, hooks, exposed_data, exposed_functions>>

call_function_handler_done(i) ==
  /\ task[i].pc = "handler_await"
  /\ task[i].op = "callFunction"
  /\ \/ \E result \in HandlerResults :
          task' = [task EXCEPT ![i].pc = "done",
                               ![i].handler_result = Returned(result),
                               ![i].outcome = Returned(Response(result))]
     \/ task' = [task EXCEPT ![i].pc = "done",
                             ![i].handler_result = Raised(HandlerFailure),
                             ![i].outcome = Raised(HandlerFailure)]
  /\ UNCHANGED <<skill_interop, hooks, exposed_data, exposed_functions>>

(***************************************************************************)
(* interop/listExposed: synchronous, one step.                             *)
(***************************************************************************)
ExposedDataEntry(d) ==
  [name |-> d.name, description |-> d.description,
   visibility |-> d.visibility, schema |-> d.schema_]

ExposedFunctionEntry(f) ==
  [name |-> f.name, description |-> f.description, visibility |-> f.visibility,
   parameters |-> f.parameters, returns |-> f.returns]

\* Variant of list_exposed: private entries are left out.
list_exposed_visible_only(s) ==
  LET ds == SelectSeq(RegistryValues(exposed_data[s]), LAMBDA d : d.visibility # <<>>)
      fs == SelectSeq(RegistryValues(exposed_functions[s]), LAMBDA f : f.visibility # <<>>)
  IN [data |-> [k \in 1..Len(ds) |-> ExposedDataEntry(ds[k])],
      functions |-> [k \in 1..Len(fs) |-> ExposedFunctionEntry(fs[k])]]

\* The body of handle_list_exposed.
list_exposed(s) ==
  LET ds == RegistryValues(exposed_data[s])
      fs == RegistryValues(exposed_functions[s])
  IN [data |-> [k \in 1..Len(ds) |-> ExposedDataEntry(ds[k])],
      functions |-> [k \in 1..Len(fs) |-> ExposedFunctionEntry(fs[k])]]

\* Variant of handle_list_exposed: a registered data hook is asked first.
handle_list_exposed_asking_hook(i) ==
  /\ CanStart(i)
  /\ \E s \in Servers :
       LET t == [task[i] EXCEPT !.op = "listExposed", !.server = s, !.pc = "done",
                                !.outcome = Returned(list_exposed(s))]
       IN task' = [task EXCEPT ![i] =
            IF data_hook_registered(s)
            THEN [t EXCEPT !.hook_calls = Append(@, [hook |-> hooks[s].on_interop_data,
                               args |-> <<create_context(s), Str(""), Str(""), Dict({})>>])]
            ELSE t]
  /\ UNCHANGED <<skill_interop, hooks, exposed_data, exposed_functions>>

\* Variant of handle_list_exposed: the entries are popped as they are listed.
handle_list_exposed_draining(i) ==
  /\ CanStart(i)
  /\ \E s \in Servers :
       /\ task' = [task EXCEPT ![i].op = "listExposed", ![i].server = s,
                               ![i].pc = "done", ![i].outcome = Returned(list_exposed(s))]
       /\ exposed_data' = [exposed_data EXCEPT ![s] = <<>>]
       /\ exposed_functions' = [exposed_functions EXCEPT ![s] = <<>>]
  /\ UNCHANGED <<skill_interop, hooks>>

handle_list_exposed(i) ==
  /\ CanStart(i)
  /\ \E s \in Servers :
       task' = [task EXCEPT ![i].op = "listExposed", ![i].server = s,
                            ![i].pc = "done", ![i].outcome = Returned(list_exposed(s))]
  /\ UNCHANGED <<skill_interop, hooks, exposed_data, exposed_functions>>

(***************************************************************************)
(* The outbound tools of build_interop_tools.  `server` is the host        *)
(* collaborator: an awaited call of it returns a value or raises.          *)
(***************************************************************************)
ListArgs == { <<>>, [skill_id |-> Str("notes")] }

RequestSkillDataArgs ==
  { [data_name |-> Str("status")],
    [skill_id |-> Str("notes"), data_name |-> Str("")],
    [skill_id |-> Str("notes"), data_name |-> Str("status"),
     params |-> Dict({<<"verbose", "1">>})] }

CallSkillFunctionArgs ==
  { [function_name |-> Str("add-note")],
    [skill_id |-> Str(""), function_name |-> Str("add-note")],
    [skill_id |-> Str("notes"), function_name |-> Str("add-note")] }

HostResults == {Dict({<<"ok", "true">>})}

HostFailures ==
  { Exc("RuntimeError", <<Lit("Unknown data endpoint: status")>>),
    Exc("KeyError", <<Lit("notes")>>) }

\* `await server.<fn>(*args)`: the call is made and the tool suspends on it.
await_host(t, fn, args) ==
  [t EXCEPT !.pc = "host_await",
            !.host_calls = Append(@, [fn |-> fn, args |-> args])]

\* The tool ends by returning `result` / by raising `exc`.
tool_returns(t, result) == [t EXCEPT !.pc = "done", !.outcome = Returned(result)]

tool_raises(t, exc) == [t EXCEPT !.pc = "done", !.outcome = Raised(exc)]

\* 1. list-skills
_list_skills(i) ==
  /\ CanStart(i)
  /\ task' = [task EXCEPT ![i] =
       await_host([task[i] EXCEPT !.op = "list-skills"], "list_skills", <<>>)]
  /\ UNCHANGED <<skill_interop, hooks, exposed_data, exposed_functions>>

\* No try block surrounds the await: a failure of the host call leaves the
\* tool as the exception it is.
list_skills_host_done(i) ==
  /\ task[i].pc = "host_await"
  /\ task[i].op = "list-skills"
  /\ \/ \E result \in HostResults :
          task' = [task EXCEPT ![i] =
            tool_returns([task[i] EXCEPT !.host_result = Returned(result)],
                         ToolResult(json_dumps(result), FALSE))]
     \/ \E exc \in HostFailures :
          task' = [task EXCEPT ![i] =
            tool_raises([task[i] EXCEPT !.host_result = Raised(exc)], exc)]
  /\ UNCHANGED <<skill_interop, hooks, exposed_data, exposed_functions>>

\* 2. list-skill-data
_list_skill_data(i) ==
  /\ CanStart(i)
  /\ \E args \in ListArgs :
       LET skill_id == Get(args, "skill_id", None)
       IN task' = [task EXCEPT ![i] =
            await_host([task[i] EXCEPT !.op = "list-skill-data", !.params = args],
                       "list_exposed_data", <<skill_id>>)]
  /\ UNCHANGED <<skill_interop, hooks, exposed_data, exposed_functions>>

list_skill_data_host_done(i) ==
  /\ task[i].pc = "host_await"
  /\ task[i].op = "list-skill-data"
  /\ \/ \E result \in HostResults :
          task' = [task EXCEPT ![i] =
            tool_returns([task[i] EXCEPT !.host_result = Returned(result)],
                         ToolResult(json_dumps(result), FALSE))]
     \/ \E exc \in HostFailures :
          task' = [task EXCEPT ![i] =
            tool_raises([task[i] EXCEPT !.host_result = Raised(exc)], exc)]
  /\ UNCHANGED <<skill_interop, hooks, exposed_data, exposed_functions>>

\* 3. list-skill-functions
_list_skill_functions(i) ==
  /\ CanStart(i)
  /\ \E args \in ListArgs :
       LET skill_id == Get(args, "skill_id", None)
       IN task' = [task EXCEPT ![i] =
            await_host([task[i] EXCEPT !.op = "list-skill-functions", !.params = args],
                       "list_exposed_functions", <<skill_id>>)]
  /\ UNCHANGED <<skill_interop, hooks, exposed_data, exposed_functions>>

list_skill_functions_host_done(i) ==
  /\ task[i].pc = "host_await"
  /\ task[i].op = "list-skill-functions"
  /\ \/ \E result \in HostResults :
          task' = [task EXCEPT ![i] =
            tool_returns([task[i] EXCEPT !.host_result = Returned(result)],
                         ToolResult(json_dumps(result), FALSE))]
     \/ \E exc \in HostFailures :
          task' = [task EXCEPT ![i] =
            tool_raises([task[i] EXCEPT !.host_result = Raised(exc)], exc)]
  /\ UNCHANGED <<skill_interop, hooks, exposed_data, exposed_functions>>

\* Variant of missing_required: `and` in place of `or`.
missing_required_both(skill_id, name) == ~Truthy(skill_id) /\ ~Truthy(name)

\* `if not skill_id or not <name>`
missing_required(skill_id, name) == ~Truthy(skill_id) \/ ~Truthy(name)

\* Variant of remote_failure_result: a fixed message instead of str(exc).
remote_failure_result_fixed(exc) == ToolResult(<<Lit("remote call failed")>>, TRUE)

\* `except Exception as exc: return ToolResult(content=str(exc), is_error=True)`
remote_failure_result(exc) == ToolResult(str(exc), TRUE)

\* Variant of _request_skill_data: the optional params are not forwarded.
_request_skill_data_without_params(i) ==
  /\ CanStart(i)
  /\ \E args \in RequestSkillDataArgs :
       LET t == [task[i] EXCEPT !.op = "request-skill-data", !.params = args]
           skill_id == Get(args, "skill_id", Str(""))
           data_name == Get(args, "data_name", Str(""))
       IN task' = [task EXCEPT ![i] =
            IF missing_required(skill_id, data_name)
            THEN tool_returns(t,
                   ToolResult(<<Lit("skill_id and data_name are required")>>, TRUE))
            ELSE await_host(t, "request_skill_data", <<skill_id, data_name, None>>)]
  /\ UNCHANGED <<skill_interop, hooks, exposed_data, exposed_functions>>

\* 4. request-skill-data
_request_skill_data(i) ==
  /\ CanStart(i)
  /\ \E args \in RequestSkillDataArgs :
       LET t == [task[i] EXCEPT !.op = "request-skill-data", !.params = args]
           skill_id == Get(args, "skill_id", Str(""))
           data_name == Get(args, "data_name", Str(""))
           params == Get(args, "params", None)
       IN task' = [task EXCEPT ![i] =
            IF missing_required(skill_id, data_name)
            THEN tool_returns(t,
                   ToolResult(<<Lit("skill_id and data_name are required")>>, TRUE))
            ELSE await_host(t, "request_skill_data", <<skill_id, data_name, params>>)]
  /\ UNCHANGED <<skill_interop, hooks, exposed_data, exposed_functions>>

request_skill_data_host_done(i) ==
  /\ task[i].pc = "host_await"
  /\ task[i].op = "request-skill-data"
  /\ \/ \E result \in HostResults :
          task' = [task EXCEPT ![i] =
            tool_returns([task[i] EXCEPT !.host_result = Returned(result)],
                         ToolResult(json_dumps(result), FALSE))]
     \/ \E exc \in HostFailures :
          task' = [task EXCEPT ![i] =
            tool_returns([task[i] EXCEPT !.host_result = Raised(exc)],
                         remote_failure_result(exc))]
  /\ UNCHANGED <<skill_interop, hooks, exposed_data, exposed_functions>>

\* 5. call-skill-function
_call_skill_function(i) ==
  /\ CanStart(i)
  /\ \E args \in CallSkillFunctionArgs :
       LET t == [task[i] EXCEPT !.op = "call-skill-function", !.params = args]
           skill_id == Get(args, "skill_id", Str(""))
           function_name == Get(args, "function_name", Str(""))
           arguments == Get(args, "arguments", None)
       IN task' = [task EXCEPT ![i] =
            IF missing_required(skill_id, function_name)
            THEN tool_returns(t,
                   ToolResult(<<Lit("skill_id and function_name are required")>>, TRUE))
            ELSE await_host(t, "call_skill_function",
                            <<skill_id, function_name, arguments>>)]
  /\ UNCHANGED <<skill_interop, hooks, exposed_data, exposed_functions>>

call_skill_function_host_done(i) ==
  /\ task[i].pc = "host_await"
  /\ task[i].op = "call-skill-function"
  /\ \/ \E result \in HostResults :
          task' = [task EXCEPT ![i] =
            tool_returns([task[i] EXCEPT !.host_result = Returned(result)],
                         ToolResult(json_dumps(result), FALSE))]
     \/ \E exc \in HostFailures :
          task' = [task EXCEPT ![i] =
            tool_returns([task[i] EXCEPT !.host_result = Raised(exc)],
                         remote_failure_result(exc))]
  /\ UNCHANGED <<skill_interop, hooks, exposed_data, exposed_functions>>

Next ==
  \E i \in Tasks :
    \/ _list_skills(i)
    \/ list_skills_host_done(i)
    \/ _list_skill_data(i)
    \/ list_skill_data_host_done(i)
    \/ _list_skill_functions(i)
    \/ list_skill_functions_host_done(i)
    \/ _request_skill_data(i)
    \/ request_skill_data_host_done(i)
    \/ _call_skill_function(i)
    \/ call_skill_function_host_done(i)
    \/ handle_get_data(i)
    \/ get_data_hook_done(i)
    \/ get_data_handler_done(i)
    \/ handle_call_function(i)
    \/ call_function_hook_done(i)
    \/ call_function_handler_done(i)
    \/ handle_list_exposed(i)

Spec == Init /\ [][Next]_vars

SpecDeclared == InitDeclared /\ [][Next]_vars

\* The step that resumes inbound request i once what it awaits has resolved.
Resume(i) ==
  \/ get_data_hook_done(i)
  \/ get_data_handler_done(i)
  \/ call_function_hook_done(i)
  \/ call_function_handler_done(i)

\* The event loop resumes a task whose awaited hook or handler has resolved.
\* What request h awaits may never resolve; what the others await does, so
\* a resumption of one of them cannot stay possible forever without one
\* being taken.
FairExcept(h) == WF_vars(\E i \in Tasks \ {h} : Resume(i))

\* The servers that register a hook: a request on them can suspend on the
\* hook as well as on the handler.
HookedServers == {s \in Servers : HooksOf(s) # None}

\* The inbound requests alone: the steps of the three forward RPC handlers,
\* for requests delivered to the servers that register a hook.
NextInbound ==
  /\ \E i \in Tasks :
       \/ handle_get_data(i)
       \/ handle_call_function(i)
       \/ handle_list_exposed(i)
       \/ Resume(i)
  /\ \A i \in Tasks : task'[i].op # "none" => task'[i].server \in HookedServers

\* The first request hangs if it ever suspends; the others are resumed.
SpecHanging == Init /\ [][NextInbound]_vars /\ FairExcept(1)

(***************************************************************************)
(* Properties                                                              *)
(***************************************************************************)
Inbound(i) == task[i].op \in {"getData", "callFunction"}

Finished(i) == task[i].pc = "done"

\* The name a request asks for, and the arguments it carries for the handler.
RequestedName(i) ==
  IF task[i].op = "getData" THEN Get(task[i].params, "dataName", Str(""))
  ELSE Get(task[i].params, "functionName", Str(""))

RequestedArgs(i) ==
  IF task[i].op = "getData" THEN Get(task[i].params, "params", Dict({}))
  ELSE Get(task[i].params, "arguments", Dict({}))

\* The declarations the request's method dispatches over.
Declared(i) ==
  IF task[i].op = "getData" THEN RegistryValues(exposed_data[task[i].server])
  ELSE RegistryValues(exposed_functions[task[i].server])

IsRegistered(i) == \E k \in 1..Len(Declared(i)) : Str(Declared(i)[k].name) = RequestedName(i)

\* A hook is registered for the request's method on the request's server.
HookRegistered(i) ==
  /\ hooks[task[i].server] # None
  /\ IF task[i].op = "getData"
     THEN hooks[task[i].server].on_interop_data # None
     ELSE hooks[task[i].server].on_interop_call # None

\* The handlers a request has invoked, with the arguments it passed them.
Invoked(i) ==
  [k \in 1..Len(task[i].handler_calls) |->
     [handler |-> task[i].handler_calls[k].handler,
      params |-> task[i].handler_calls[k].args[2]]]

UnknownName(i) ==
  Raised(Exc("ValueError",
    <<Lit(IF task[i].op = "getData" THEN "Unknown data endpoint: " ELSE "Unknown function: "),
      [fmt |-> RequestedName(i)]>>))

\* C1: a getData request for a registered endpoint E on a skill with no hook
\* invokes E.handler exactly once, invokes no other handler, and returns
\* exactly {data: <what E.handler returned>}.
C1_GetDataInvokesHandlerOnce ==
  \A i \in Tasks :
    \A k \in 1..Len(exposed_data[task[i].server]) :
      LET E == exposed_data[task[i].server][k].value
      IN (/\ task[i].op = "getData"
          /\ ~HookRegistered(i)
          /\ RequestedName(i) = Str(E.name))
         => /\ Invoked(i) = <<[handler |-> E.handler, params |-> RequestedArgs(i)]>>
            /\ task[i].handler_result.kind = "return"
                 => /\ Finished(i)
                    /\ task[i].outcome = Returned([data |-> task[i].handler_result.value])
            /\ task[i].outcome.kind = "return"
                 => task[i].handler_result.kind = "return"

C1_Witness ==
  \E i \in Tasks :
    /\ task[i].op = "getData"
    /\ task[i].server = "nohooks"
    /\ RequestedName(i) = Str("private-notes")
    /\ Finished(i)
    /\ task[i].handler_result = Returned(Dict({<<"ok", "true">>}))
    /\ task[i].outcome = Returned([data |-> Dict({<<"ok", "true">>})])

\* C2 as stated: every getData/callFunction request for an unregistered name
\* fails with the Unknown-name error and invokes no handler.
C2_UnregisteredAlwaysFails ==
  \A i \in Tasks :
    (Inbound(i) /\ ~IsRegistered(i))
      => /\ task[i].handler_calls = <<>>
         /\ Finished(i) => task[i].outcome = UnknownName(i)

\* C2 (amended): a request for an unregistered name never invokes a handler,
\* and it fails with the Unknown-name error whenever no hook is registered
\* for its method or that hook returned None.
C2_UnregisteredFailsOnRegistryPath ==
  \A i \in Tasks :
    (Inbound(i) /\ ~IsRegistered(i))
      => /\ task[i].handler_calls = <<>>
         /\ (~HookRegistered(i) \/ task[i].hook_result = Returned(None))
              => /\ Finished(i)
                 /\ task[i].outcome = UnknownName(i)

C2_Witness ==
  /\ \E i \in Tasks :
       /\ task[i].op = "getData" /\ ~IsRegistered(i) /\ ~HookRegistered(i)
       /\ task[i].outcome = UnknownName(i)
  /\ \E i \in Tasks :
       /\ task[i].op = "callFunction" /\ ~IsRegistered(i)
       /\ task[i].hook_result = Returned(None)
       /\ task[i].outcome = UnknownName(i)

\* C3: when the hook registered for the method returns a non-None value V (the
\* empty dict included), no handler is invoked for the request and the
\* dispatch result is exactly {data: V}.
C3_HookShortCircuits ==
  \A i \in Tasks :
    (/\ Inbound(i)
     /\ task[i].hook_result.kind = "return"
     /\ task[i].hook_result.value # None)
      => /\ task[i].handler_calls = <<>>
         /\ Finished(i)
         /\ task[i].outcome = Returned([data |-> task[i].hook_result.value])

C3_Witness ==
  /\ \E i \in Tasks :
       /\ task[i].op = "getData" /\ IsRegistered(i)
       /\ task[i].hook_result = Returned(Dict({}))
       /\ task[i].outcome = Returned([data |-> Dict({})])
  /\ \E i \in Tasks :
       /\ task[i].op = "callFunction" /\ IsRegistered(i)
       /\ task[i].hook_result = Returned(Dict({<<"short", "1">>}))
       /\ task[i].outcome = Returned([data |-> Dict({<<"short", "1">>})])

\* C4: a request whose hook returned None is dispatched as the same request is
\* on the same skill with no hook: the same handler is invoked as often and
\* with the same params, and, the handler answering alike, the same result
\* or the same Unknown-name failure is produced.
SameRequest(i, j) ==
  /\ Inbound(i)
  /\ task[i].op = task[j].op
  /\ task[i].params = task[j].params

C4_NullHookEqualsNoHook ==
  \A i, j \in Tasks :
    (/\ SameRequest(i, j)
     /\ HookRegistered(i) /\ task[i].hook_result = Returned(None)
     /\ ~HookRegistered(j))
      => /\ Invoked(i) = Invoked(j)
         /\ (Finished(i) /\ Finished(j) /\ task[i].handler_result = task[j].handler_result)
              => task[i].outcome = task[j].outcome
         /\ (task[i].handler_result = NoOutcome /\ task[j].handler_result = NoOutcome)
              => task[i].pc = task[j].pc

C4_Witness ==
  \E i, j \in Tasks :
    /\ SameRequest(i, j)
    /\ HookRegistered(i) /\ task[i].hook_result = Returned(None)
    /\ ~HookRegistered(j)
    /\ Finished(i) /\ Finished(j)
    /\ IsRegistered(i)
    /\ task[i].handler_result.kind = "return"
    /\ task[i].handler_result = task[j].handler_result
    /\ task[i].outcome.kind = "return"

\* C5: no getData/callFunction request ever invokes the handler of an
\* endpoint or function whose visibility set is empty.
C5_PrivateNeverInvoked ==
  \A i \in Tasks :
    Inbound(i) =>
      \A k \in 1..Len(Declared(i)) :
        Declared(i)[k].visibility = <<>>
          => \A c \in 1..Len(task[i].handler_calls) :
               task[i].handler_calls[c].handler # Declared(i)[k].handler

\* C6: every inbound request has caused at most one handler invocation, in
\* every interleaving of the requests in flight.
C6_AtMostOneInvocation ==
  \A i \in Tasks : Inbound(i) => Len(task[i].handler_calls) <= 1

\* Two requests suspended at once, one on its hook and one on its handler.
C6_Witness ==
  \E i, j \in Tasks :
    /\ i # j
    /\ Inbound(i) /\ Inbound(j)
    /\ task[i].pc = "handler_await" /\ Len(task[i].handler_calls) = 1
    /\ task[j].pc = "hook_await"
    /\ task[i].server = task[j].server

\* C7: the listExposed result holds no handler and reflects the registry
\* exactly: one data entry per registered endpoint with its name,
\* description, visibility and schema, one functions entry per registered
\* function with its name, description, visibility, parameters and returns,
\* and nothing else, whatever the visibility.
C7_ListExposedReflectsRegistry ==
  \A i \in Tasks :
    (task[i].op = "listExposed" /\ Finished(i))
      => LET r == task[i].outcome.value
             ds == exposed_data[task[i].server]
             fs == exposed_functions[task[i].server]
         IN /\ task[i].outcome.kind = "return"
            /\ DOMAIN r = {"data", "functions"}
            /\ Len(r.data) = Len(ds)
            /\ Len(r.functions) = Len(fs)
            /\ \A k \in 1..Len(ds) :
                 /\ DOMAIN r.data[k] = {"name", "description", "visibility", "schema"}
                 /\ r.data[k].name = ds[k].value.name
                 /\ r.data[k].description = ds[k].value.description
                 /\ r.data[k].visibility = ds[k].value.visibility
                 /\ r.data[k].schema = ds[k].value.schema_
            /\ \A k \in 1..Len(fs) :
                 /\ DOMAIN r.functions[k] =
                      {"name", "description", "visibility", "parameters", "returns"}
                 /\ r.functions[k].name = fs[k].value.name
                 /\ r.functions[k].description = fs[k].value.description
                 /\ r.functions[k].visibility = fs[k].value.visibility
                 /\ r.functions[k].parameters = fs[k].value.parameters
                 /\ r.functions[k].returns = fs[k].value.returns

C7_Witness ==
  \E i \in Tasks :
    /\ task[i].op = "listExposed" /\ Finished(i)
    /\ Len(task[i].outcome.value.data) = 2
    /\ task[i].outcome.value.data[2].visibility = <<>>
    /\ Len(task[i].outcome.value.functions) = 2

\* A required tool argument that is absent or the empty string.
Lacks(i, key) == key \notin DOMAIN task[i].params \/ task[i].params[key] = Str("")

LacksRequired(i) ==
  \/ /\ task[i].op = "request-skill-data"
     /\ (Lacks(i, "skill_id") \/ Lacks(i, "data_name"))
  \/ /\ task[i].op = "call-skill-function"
     /\ (Lacks(i, "skill_id") \/ Lacks(i, "function_name"))

\* C8: request-skill-data and call-skill-function invoked without skill_id
\* or without the name return a result with is_error set and make no call
\* to the host collaborator.
C8_MissingArgumentIsLocalError ==
  \A i \in Tasks :
    LacksRequired(i)
      => /\ task[i].host_calls = <<>>
         /\ Finished(i)
         /\ task[i].outcome.kind = "return"
         /\ task[i].outcome.value.is_error = TRUE

C8_Witness ==
  /\ \E i \in Tasks :
       /\ task[i].op = "request-skill-data" /\ Lacks(i, "skill_id")
       /\ task[i].outcome.value.is_error = TRUE
  /\ \E i \in Tasks :
       /\ task[i].op = "call-skill-function" /\ "skill_id" \in DOMAIN task[i].params
       /\ Lacks(i, "skill_id")
       /\ task[i].outcome.value.is_error = TRUE

\* `part` occurs in `text` as a run of consecutive pieces.
Contains(text, part) ==
  \E k \in 0..Len(text) :
    /\ k + Len(part) <= Len(text)
    /\ SubSeq(text, k + 1, k + Len(part)) = part

\* C9: when the host call of request-skill-data or call-skill-function fails
\* with error text T, the tool returns a result with is_error set whose
\* content contains T, and raises nothing.
C9_RemoteFailureSurfaced ==
  \A i \in Tasks :
    (/\ task[i].op \in {"request-skill-data", "call-skill-function"}
     /\ task[i].host_result.kind = "raise")
      => /\ Finished(i)
         /\ task[i].outcome.kind = "return"
         /\ task[i].outcome.value.is_error = TRUE
         /\ Contains(task[i].outcome.value.content, task[i].host_result.value.args)

C9_Witness ==
  /\ \E i \in Tasks :
       /\ task[i].op = "call-skill-function"
       /\ task[i].host_result = Raised(Exc("KeyError", <<Lit("notes")>>))
       /\ task[i].outcome.value.is_error = TRUE
  /\ \E i \in Tasks :
       /\ task[i].op = "request-skill-data"
       /\ task[i].host_result.kind = "raise"
       /\ task[i].outcome.value.is_error = TRUE

ToolNames ==
  {"list-skills", "list-skill-data", "list-skill-functions",
   "request-skill-data", "call-skill-function"}

\* C10: every invocation of each of the five outbound tools ends by returning
\* a result with an is_error flag, never by raising, also when the host
\* call it made failed.
C10_ToolsNeverRaise ==
  \A i \in Tasks :
    (task[i].op \in ToolNames /\ Finished(i))
      => /\ task[i].outcome.kind = "return"
         /\ task[i].outcome.value.is_error \in BOOLEAN

\* C11: when the handler selected for a getData or callFunction request
\* fails, the request ends with that same failure, neither caught nor
\* wrapped, and no {data: ...} response is produced for it.
C11_HandlerFailurePropagates ==
  \A i \in Tasks :
    (Inbound(i) /\ task[i].handler_result.kind = "raise")
      => /\ Finished(i)
         /\ task[i].outcome.kind = "raise"
         /\ task[i].outcome.value = task[i].handler_result.value

C11_Witness ==
  /\ \E i \in Tasks :
       /\ task[i].op = "getData" /\ Len(task[i].handler_calls) = 1
       /\ task[i].handler_result = Raised(HandlerFailure)
       /\ task[i].outcome = Raised(HandlerFailure)
  /\ \E i \in Tasks :
       /\ task[i].op = "callFunction" /\ Len(task[i].handler_calls) = 1
       /\ task[i].handler_result = Raised(HandlerFailure)
       /\ task[i].outcome = Raised(HandlerFailure)

UniqueNames(defs) ==
  \A a, b \in 1..Len(defs) : defs[a].name = defs[b].name => a = b

\* C12: a capability set in which two data endpoints, or two functions, share
\* a name is rejected when it is built: no request is ever dispatched on a
\* skill whose declaration holds a duplicate name, one entry of which took
\* the other's place in the registry.
C12_DuplicateNamesRejected ==
  \A i \in Tasks :
    Inbound(i)
      => /\ UniqueNames(skill_interop.exposed_data)
         /\ UniqueNames(skill_interop.exposed_functions)
         /\ Len(exposed_data[task[i].server]) = Len(skill_interop.exposed_data)
         /\ Len(exposed_functions[task[i].server]) = Len(skill_interop.exposed_functions)

\* The hook a request's method consults, and the call the request owes it.
MethodHook(i) ==
  IF task[i].op = "getData" THEN hooks[task[i].server].on_interop_data
  ELSE hooks[task[i].server].on_interop_call

HookCall(i) ==
  [hook |-> MethodHook(i),
   args |-> <<create_context(task[i].server),
              Get(task[i].params, "callerSkillId", Str("")),
              RequestedName(i), RequestedArgs(i)>>]

\* C13: with a hook registered for the method, every getData/callFunction
\* request, for a registered or an unregistered name, invokes that hook
\* exactly once and before any registry lookup: a handler call or an
\* Unknown-name failure is seen only after the hook returned None, and a
\* request for an unregistered name whose hook returns a non-None V ends with
\* {data: V}.
C13_HookRunsOnceBeforeLookup ==
  \A i \in Tasks :
    (Inbound(i) /\ HookRegistered(i))
      => /\ task[i].hook_calls = <<HookCall(i)>>
         /\ (task[i].handler_calls # <<>> \/ task[i].outcome = UnknownName(i))
              => task[i].hook_result = Returned(None)
         /\ task[i].pc = "hook_await" <=> task[i].hook_result = NoOutcome
         /\ (/\ ~IsRegistered(i)
             /\ task[i].hook_result.kind = "return"
             /\ task[i].hook_result.value # None)
              => task[i].outcome = Returned([data |-> task[i].hook_result.value])

C13_Witness ==
  /\ \E i \in Tasks :
       /\ task[i].op = "getData" /\ HookRegistered(i) /\ ~IsRegistered(i)
       /\ task[i].hook_calls = <<HookCall(i)>>
       /\ task[i].hook_result = Returned(Dict({<<"short", "1">>}))
       /\ task[i].outcome = Returned([data |-> Dict({<<"short", "1">>})])
  /\ \E i \in Tasks :
       /\ task[i].op = "callFunction" /\ HookRegistered(i) /\ IsRegistered(i)
       /\ task[i].hook_calls = <<HookCall(i)>>
       /\ task[i].pc = "handler_await"

\* The registry holds exactly the declarations, in order, each under its name.
HoldsDeclarations(registry, defs) ==
  /\ Len(registry) = Len(defs)
  /\ \A k \in 1..Len(defs) :
       /\ registry[k].key = Str(defs[k].name)
       /\ registry[k].value = defs[k]

\* C14: no getData, callFunction or listExposed step changes the capability
\* registry: in every reachable state, on every server, the data endpoints
\* and functions (names, descriptions, visibility, schemas, handlers) are
\* those it was constructed with.
C14_RegistryReadOnly ==
  /\ skill_interop = interop_schema
  /\ \A s \in Servers :
       /\ HoldsDeclarations(exposed_data[s], interop_schema.exposed_data)
       /\ HoldsDeclarations(exposed_functions[s], interop_schema.exposed_functions)

C14_Witness ==
  /\ C14_RegistryReadOnly
  /\ \E i, j \in Tasks :
       /\ task[i].op = "listExposed" /\ Finished(i)
       /\ task[j].op = "callFunction" /\ Finished(j)
       /\ task[i].server = task[j].server
       /\ task[j].handler_result.kind = "return"

Suspended(i) == Inbound(i) /\ task[i].pc \in {"hook_await", "handler_await"}

\* C15: a request whose hook or handler never resolves blocks only itself:
\* every other request, its own hook and handler resolving, ends with a
\* {data: ...} response or a failure.
C15_OthersComplete ==
  \A i \in Tasks \ {1} : Suspended(i) ~> (Finished(i) /\ task[i].outcome # NoOutcome)

\* The first request is still suspended while a later one has been answered.
C15_Witness ==
  \E i \in Tasks \ {1} :
    /\ Suspended(1)
    /\ task[1].pc = "hook_await"
    /\ Inbound(i) /\ Finished(i)
    /\ task[i].server = task[1].server
    /\ task[i].op = task[1].op
    /\ task[i].handler_result.kind = "return"
    /\ task[i].outcome.kind = "return"

\* The hook each method may consult.
HookOfMethod(op) ==
  IF op = "getData" THEN Callable("on_interop_data") ELSE Callable("on_interop_call")

\* The request's server registers a hook, but only for the other method.
OtherHookOnly(i) == hooks[task[i].server] # None /\ ~HookRegistered(i)

\* C16: hooks are per method.  A request consults only its own method's
\* hook, and on a skill that registers a hook for the other method only it
\* is dispatched exactly as on a skill with no hooks: no hook call, the same
\* handler call, the same progress and, the handler answering alike, the
\* same outcome.
C16_HooksArePerMethod ==
  /\ \A i \in Tasks :
       Inbound(i) =>
         /\ \A c \in 1..Len(task[i].hook_calls) :
              task[i].hook_calls[c].hook = HookOfMethod(task[i].op)
         /\ OtherHookOnly(i) => (task[i].hook_calls = <<>> /\ task[i].hook_result = NoOutcome)
  /\ \A i, j \in Tasks :
       (/\ SameRequest(i, j)
        /\ OtherHookOnly(i)
        /\ hooks[task[j].server] = None)
         => /\ Invoked(i) = Invoked(j)
            /\ task[i].handler_result = task[j].handler_result
                 => (task[i].pc = task[j].pc /\ task[i].outcome = task[j].outcome)

C16_Witness ==
  /\ \E i, j \in Tasks :
       /\ SameRequest(i, j) /\ task[i].op = "callFunction"
       /\ task[i].server = "datahook" /\ task[j].server = "nohooks"
       /\ Finished(i) /\ Finished(j)
       /\ task[i].handler_result.kind = "return"
       /\ task[i].outcome = task[j].outcome

\* An argument as the caller gave it, None when it was left out.
Given(i, key) == IF key \in DOMAIN task[i].params THEN task[i].params[key] ELSE None

\* The one host call each tool makes for the arguments it was invoked with.
ExpectedHostCall(i) ==
  CASE task[i].op = "list-skills" ->
         [fn |-> "list_skills", args |-> <<>>]
    [] task[i].op = "list-skill-data" ->
         [fn |-> "list_exposed_data", args |-> <<Given(i, "skill_id")>>]
    [] task[i].op = "list-skill-functions" ->
         [fn |-> "list_exposed_functions", args |-> <<Given(i, "skill_id")>>]
    [] task[i].op = "request-skill-data" ->
         [fn |-> "request_skill_data",
          args |-> <<Given(i, "skill_id"), Given(i, "data_name"), Given(i, "params")>>]
    [] task[i].op = "call-skill-function" ->
         [fn |-> "call_skill_function",
          args |-> <<Given(i, "skill_id"), Given(i, "function_name"), Given(i, "arguments")>>]

\* C17: each outbound tool is a stateless adapter.  An invocation makes at
\* most one host call, which carries the caller's skill_id, name and optional
\* params/arguments unchanged; when that call succeeds the tool returns a
\* non-error result whose content is the rendering of exactly the value the
\* host returned, whatever other invocations did.
C17_ToolsAreStatelessAdapters ==
  \A i \in Tasks :
    task[i].op \in ToolNames
      => /\ Len(task[i].host_calls) <= 1
         /\ \A c \in 1..Len(task[i].host_calls) : task[i].host_calls[c] = ExpectedHostCall(i)
         /\ task[i].host_result # NoOutcome => Len(task[i].host_calls) = 1
         /\ task[i].host_result.kind = "return"
              => /\ Finished(i)
                 /\ task[i].outcome.kind = "return"
                 /\ task[i].outcome.value.is_error = FALSE
                 /\ task[i].outcome.value.content = <<[json |-> task[i].host_result.value]>>

C17_Witness ==
  /\ \E i \in Tasks :
       /\ task[i].op = "request-skill-data"
       /\ "params" \in DOMAIN task[i].params
       /\ task[i].host_calls = <<ExpectedHostCall(i)>>
       /\ task[i].host_result.kind = "return"
       /\ task[i].outcome.value.is_error = FALSE
  /\ \E i \in Tasks :
       /\ task[i].op = "call-skill-function"
       /\ task[i].host_calls = <<ExpectedHostCall(i)>>
       /\ task[i].host_result.kind = "return"
       /\ task[i].outcome.value.is_error = FALSE

\* The discovery payload of the skill's declarations, written out.
DeclaredListing ==
  LET ds == interop_schema.exposed_data
      fs == interop_schema.exposed_functions
  IN [data |-> [k \in 1..Len(ds) |->
                  [name |-> ds[k].name, description |-> ds[k].description,
                   visibility |-> ds[k].visibility, schema |-> ds[k].schema_]],
      functions |-> [k \in 1..Len(fs) |->
                  [name |-> fs[k].name, description |-> fs[k].description,
                   visibility |-> fs[k].visibility, parameters |-> fs[k].parameters,
                   returns |-> fs[k].returns]]]

\* C18: listExposed invokes no handler and no hook, and answers at once with
\* the same listing on every server, with or without hooks, whatever
\* getData/callFunction requests were handled before it or are in flight.
C18_ListExposedIsIndependent ==
  \A i \in Tasks :
    task[i].op = "listExposed"
      => /\ task[i].handler_calls = <<>>
         /\ task[i].hook_calls = <<>>
         /\ Finished(i)
         /\ task[i].outcome = Returned(DeclaredListing)

C18_Witness ==
  \E i, j \in Tasks :
    /\ task[i].op = "listExposed"
    /\ task[i].server = "datahook"
    /\ task[i].outcome = Returned(DeclaredListing)
    /\ j < i
    /\ task[j].op = "getData" /\ task[j].server = "datahook"
    /\ task[j].pc = "hook_await"

====
